---- MODULE Spec2Model ----
(***************************************************************************)
(* Model of the media ingest service (src/app.py): the Flask handlers      *)
(* upload_video, upload_photo, delete_media and index, run by concurrent   *)
(* request threads over one shared filesystem.  A handler is a sequence of *)
(* steps, one per filesystem call; the filesystem and the external ffmpeg  *)
(* process may fail, which is drawn nondeterministically.                  *)
(*                                                                         *)
(* A file name is a sequence of tokens (a word, an extension, a separator, *)
(* a space, ...), so that unquote, os.path.join and secure_filename act on *)
(* the shape of the name.                                                  *)
(***************************************************************************)
EXTENDS Integers, Sequences, FiniteSets, TLC

\* ------------------------------------------------------------ bounds
\* Request threads of the server, in the order they are handed requests.  Each
\* serves one request, so two requests run, overlapping in every way or one
\* after the other.
ProcOrder == <<"p1", "p2">>
Procs == {ProcOrder[i] : i \in 1..Len(ProcOrder)}
\* Clock seconds the model runs through.
MaxClock == 2
\* Longest arbitrary item list handed to the paginator (plus the long ramps).
MaxItems == 3

\* ------------------------------------------------------------ configuration
MEDIA_PER_PAGE == 30

\* ------------------------------------------------------------ small helpers
Min(a, b) == IF a < b THEN a ELSE b
Max(a, b) == IF a > b THEN a ELSE b

\* ------------------------------------------------------------ file names
VIDEO_EXT == {".mp4", ".webm", ".ogg"}
IMAGE_EXT == {".jpg", ".jpeg", ".png", ".gif", ".webp"}

\* str.lower() on a token: only the upper-case extension token changes.
lower(tok) == IF tok = ".MP4" THEN ".mp4" ELSE IF tok = ".JPG" THEN ".jpg" ELSE tok

is_image_file(filename) ==
    /\ Len(filename) > 0
    /\ lower(filename[Len(filename)]) \in IMAGE_EXT

is_video_file(filename) ==
    /\ Len(filename) > 0
    /\ lower(filename[Len(filename)]) \in VIDEO_EXT

\* datetime.now().strftime('%Y%m%d_%H%M%S'): one string per clock second.
strftime(t) == <<"T1", "T2", "T3", "T4", "T5", "T6">>[t]

mp4_filename(timestamp) == <<"video_", timestamp, ".mp4">>
webm_filename(timestamp) == <<"video_", timestamp, ".webm">>
photo_filename(timestamp) == <<"photo_", timestamp, ".jpg">>

\* urllib.parse.unquote: percent-escapes become the characters they stand for.
unquote(filename) ==
    [i \in 1..Len(filename) |->
        IF filename[i] = "%2F" THEN "/"
        ELSE IF filename[i] = "%20" THEN " "
        ELSE filename[i]]

\* werkzeug's secure_filename: separators become spaces, the words are joined
\* with "_", and leading and trailing "." and "_" are stripped.
RECURSIVE TrimLeft(_)
TrimLeft(s) ==
    IF s # <<>> /\ Head(s) = " " THEN TrimLeft(Tail(s)) ELSE s

RECURSIVE JoinWords(_)
\* "_".join(filename.split()): a run of spaces between two words becomes one
\* "_", leading and trailing spaces vanish.
JoinWords(s) ==
    IF s = <<>> THEN <<>>
    ELSE IF Head(s) = " "
         THEN (IF TrimLeft(s) = <<>> THEN <<>>
               ELSE <<"_">> \o JoinWords(TrimLeft(s)))
         ELSE <<Head(s)>> \o JoinWords(Tail(s))

RECURSIVE StripLeft(_)
StripLeft(s) ==
    IF s # <<>> /\ Head(s) \in {"..", ".", "_"} THEN StripLeft(Tail(s)) ELSE s

RECURSIVE StripRight(_)
StripRight(s) ==
    IF s # <<>> /\ s[Len(s)] \in {"..", ".", "_"}
    THEN StripRight(SubSeq(s, 1, Len(s) - 1)) ELSE s

secure_filename(filename) ==
    LET spaced == [i \in 1..Len(filename) |->
                     IF filename[i] = "/" THEN " " ELSE filename[i]]
    IN StripRight(StripLeft(JoinWords(TrimLeft(spaced))))

\* ------------------------------------------------------------ paths
\* Where os.path.join(UPLOAD_FOLDER, filename) points once the operating system
\* has walked it: a name in the storage directory ("store"), a name in its
\* parent directory static/ ("parent"), a directory ("dir"), or a place where
\* the model keeps no file ("nowhere").
RECURSIVE Walk(_, _, _)
Walk(dir, rest, acc) ==
    IF rest = <<>>
    THEN IF dir = "nowhere" THEN [dir |-> "nowhere", key |-> <<>>]
         ELSE IF acc = <<>> \/ acc = <<"..">> THEN [dir |-> "dir", key |-> <<>>]
         ELSE [dir |-> dir, key |-> acc]
    ELSE IF Head(rest) = "/"
         THEN IF acc = <<>> THEN Walk(dir, Tail(rest), <<>>)
              ELSE IF acc = <<"..">>
                   THEN Walk(IF dir = "store" THEN "parent" ELSE "nowhere",
                             Tail(rest), <<>>)
                   ELSE Walk("nowhere", Tail(rest), <<>>)
         ELSE Walk(dir, Tail(rest), acc \o <<Head(rest)>>)

\* os.path.join: an absolute filename drops the storage directory.
path_join(filename) ==
    IF filename # <<>> /\ Head(filename) = "/"
    THEN Walk("nowhere", filename, <<>>)
    ELSE Walk("store", filename, <<>>)

\* ------------------------------------------------------------ contents
\* What a file holds: the raw decoded bytes b, the transcoder's or the image
\* normalizer's output for b, or an unfinished write (an empty or truncated file).
Bodies == {"b1", "b2"}
raw(b) == [k |-> "raw", b |-> b]
mp4(b) == [k |-> "mp4", b |-> b]
jpeg(b) == [k |-> "jpeg", b |-> b]
partial == [k |-> "partial", b |-> "-"]
\* The bytes of one writer over the longer bytes of another.
garbled == [k |-> "garbled", b |-> "-"]
\* Python's None, where a content is expected.
NoData == [k |-> "None", b |-> "-"]

File(data, t) == [data |-> data, mtime |-> t]
fully_written(f) == f.data.k # "partial"

\* A data-URL payload: <prefix> "," <base64 body>.
Payloads ==
    { <<"data:", ",", "YjE=">>,      \* base64 of b1
      <<"data:", ",", "YjI=">>,      \* base64 of b2
      <<"data:", ",", "Yj">>,        \* not valid base64: incorrect padding
      <<"data:", ",", "!", "YjI=">>, \* not valid base64: a character outside
                                     \* the alphabet before the base64 of b2
      <<"YjE=">> }                   \* no separator

\* str.split(','): the pieces between the commas.
RECURSIVE split_comma(_, _)
split_comma(s, acc) ==
    IF s = <<>> THEN <<acc>>
    ELSE IF Head(s) = "," THEN <<acc>> \o split_comma(Tail(s), <<>>)
    ELSE split_comma(Tail(s), acc \o <<Head(s)>>)

\* Characters outside the base64 alphabet.
NonAlphabet == {"!"}

\* base64.b64decode(s) with its default validate=False: the characters outside
\* the alphabet are discarded, then the rest is decoded; "error" stands for the
\* binascii.Error raised on incorrect padding.
b64decode(body) ==
    LET kept == SelectSeq(body, LAMBDA c : c \notin NonAlphabet)
    IN IF kept = <<"YjE=">> THEN "b1"
       ELSE IF kept = <<"YjI=">> THEN "b2"
       ELSE "error"

\* Lines 154-161 and 213-217: data[...].split(',')[1], then b64decode.
\* "error" stands for the IndexError or binascii.Error raised.
decode_payload(payload) ==
    LET parts == split_comma(payload, <<>>)
    IN IF Len(parts) < 2 THEN "error" ELSE b64decode(parts[2])

\* Bytes PIL can open as an image; process_image returns None for the others.
ImageBodies == {"b1"}

process_image(image_data) ==
    LET image_binary == b64decode(image_data)
    IN IF image_binary \in ImageBodies THEN jpeg(image_binary) ELSE NoData

\* ------------------------------------------------------------ listing
\* list.sort(key=timestamp, reverse=True): stable, newest first.
sort_desc(items) ==
    LET n == Len(items)
        \* where a stable sort puts items[i]: after every newer item and after
        \* the equally old items that came before it
        rank(i) == 1 + Cardinality({j \in 1..n :
                                      items[j].timestamp > items[i].timestamp})
                     + Cardinality({j \in 1..(i - 1) :
                                      items[j].timestamp = items[i].timestamp})
    IN [k \in 1..n |-> items[CHOOSE i \in 1..n : rank(i) = k]]

\* A division that rounds down, where the code rounds up.
floor_div(a, b) == a \div b

\* math.ceil(a / b) for a >= 0, b >= 1.
ceil_div(a, b) == IF a % b = 0 THEN a \div b ELSE (a \div b) + 1

\* Python's s[lo:hi]: negative bounds count from the end, both are clipped.
py_slice(s, lo, hi) ==
    LET n == Len(s)
        l == IF lo < 0 THEN Max(n + lo, 0) ELSE Min(lo, n)
        h == IF hi < 0 THEN Max(n + hi, 0) ELSE Min(hi, n)
    IN SubSeq(s, l + 1, h)

\* A paginator whose start_idx stays 0-based in pagination_info.
paginate_start0(media_files_in, page_in, media_per_page) ==
    LET media_files == sort_desc(media_files_in)
        total_media == Len(media_files)
        total_pages == IF total_media > 0
                       THEN ceil_div(total_media, media_per_page) ELSE 1
        page == IF page_in < 1 THEN 1
                ELSE IF page_in > total_pages THEN total_pages ELSE page_in
        start_idx == (page - 1) * media_per_page
        end_idx == start_idx + media_per_page
    IN [ media_files |-> py_slice(media_files, start_idx, end_idx),
         current_page |-> page,
         total_pages |-> total_pages,
         has_prev |-> page > 1,
         has_next |-> page < total_pages,
         total_media |-> total_media,
         media_per_page |-> media_per_page,
         start_idx |-> start_idx,
         end_idx |-> Min(end_idx, total_media) ]

\* Lines 108-138 of index(): sort, page arithmetic, slice, pagination_info.
paginate(media_files_in, page_in, media_per_page) ==
    LET media_files == sort_desc(media_files_in)
        total_media == Len(media_files)
        total_pages == IF total_media > 0
                       THEN ceil_div(total_media, media_per_page) ELSE 1
        page == IF page_in < 1 THEN 1
                ELSE IF page_in > total_pages THEN total_pages ELSE page_in
        start_idx == (page - 1) * media_per_page
        end_idx == start_idx + media_per_page
    IN [ media_files |-> py_slice(media_files, start_idx, end_idx),
         current_page |-> page,
         total_pages |-> total_pages,
         has_prev |-> page > 1,
         has_next |-> page < total_pages,
         total_media |-> total_media,
         media_per_page |-> media_per_page,
         start_idx |-> IF total_media > 0 THEN start_idx + 1 ELSE 0,
         end_idx |-> Min(end_idx, total_media) ]

\* ------------------------------------------------------------ state
VARIABLES
    mode,     \* "conc": free requests; "rt": the upload-list-delete round trip;
              \* "page": the paginator alone
    now,      \* the wall clock, in seconds
    store,    \* the storage directory static/videos: name -> file
    parent,   \* the names of the files in static/, outside the storage directory
    tmp,      \* the temp directory: temp path -> content
    pc,       \* where each request thread stands in its handler
    loc,      \* each request thread's locals, result, and record of the call
    trip,     \* round trip: its stage, the listing before it, the name returned
    pgIn,     \* paginator alone: the input (items, page, page size)
    pgOut     \* paginator alone: the output, once computed

vars == <<mode, now, store, parent, tmp, pc, loc, trip, pgIn, pgOut>>

NoPath == [dir |-> "nowhere", key |-> <<>>]
NoResult == [kind |-> "none", success |-> FALSE, http |-> 0,
             filename |-> <<>>, warning |-> FALSE]
NoPage == paginate(<<>>, 1, MEDIA_PER_PAGE)

\* jsonify({'success': True, 'filename': ...[, 'warning': ...]})
Ok(filename, warning) ==
    [kind |-> "json", success |-> TRUE, http |-> 200,
     filename |-> filename, warning |-> warning]
\* jsonify({'success': False, 'error': ...}), status
Err(http) ==
    [kind |-> "json", success |-> FALSE, http |-> http,
     filename |-> <<>>, warning |-> FALSE]
\* An exception that leaves the handler: no structured result.
Unhandled ==
    [kind |-> "unhandled", success |-> FALSE, http |-> 500,
     filename |-> <<>>, warning |-> FALSE]
\* render_template('index.html', ...)
Rendered ==
    [kind |-> "page", success |-> TRUE, http |-> 200,
     filename |-> <<>>, warning |-> FALSE]

\* No ffmpeg process yet.
NotRun == [launched |-> FALSE, returncode |-> -1]

\* The locals of a handler about to start.  The fields from `made` on are a
\* record of the call, which the program does not read:
\*   made     the names the call created in the store
\*   ioerr    a filesystem call of the handler failed
\*   xfail    convert_webm_to_mp4 returned False
\*   proc     whether the call's ffmpeg process was launched, and its exit
\*            status (while the call runs)
\*   swfail   the write of the final file into the store failed
\*   lost     what another request did last to the call's target file:
\*            "no" (nothing), "rewritten" or "removed"
\*   tmpMade  the call created a temp file
\*   tmpLeft  at the return, the call's temp file exists
\*   fileAt   at the return, what the store holds under the returned name
\*   stray    at the return, the names the call created, other than the
\*            returned one, that the store still holds
Fresh(op) ==
    [ op |-> op, arg |-> <<>>, page |-> 0,
      bin |-> "-", ts |-> "-", tmpPath |-> "None", target |-> <<>>,
      data |-> NoData, path |-> NoPath, todo |-> <<>>,
      pageinfo |-> NoPage, result |-> NoResult,
      made |-> {}, ioerr |-> FALSE, xfail |-> FALSE, proc |-> NotRun,
      swfail |-> FALSE,
      lost |-> "no", tmpMade |-> FALSE, tmpLeft |-> FALSE, fileAt |-> NoData, stray |-> {} ]

\* The handler returns (or an exception leaves it): the locals go, the result
\* and the record of the call stay.  t and st are the temp directory and the
\* store at that moment.
Return(l, result, t, st) ==
    [ Fresh(l.op) EXCEPT
        !.arg = l.arg,
        !.bin = l.bin,
        !.pageinfo = l.pageinfo,
        !.result = result,
        !.ioerr = l.ioerr, !.xfail = l.xfail, !.swfail = l.swfail,
        !.lost = l.lost,
        !.tmpMade = l.tmpPath # "None",
        !.tmpLeft = l.tmpPath \in DOMAIN t,
        !.fileAt = IF result.filename \in DOMAIN st
                   THEN st[result.filename].data ELSE NoData,
        !.stray = (l.made \cap DOMAIN st) \ {result.filename} ]

Idle(p) == pc[p] \in {"idle", "done"}

\* os.path.exists
exists(path) ==
    IF path.dir = "store" THEN path.key \in DOMAIN store
    ELSE IF path.dir = "parent" THEN path.key \in parent
    ELSE path.dir = "dir"

\* The media names a scan of the storage directory yields (Enumerate).
Enumerate(dir) == {n \in DOMAIN dir : is_video_file(n) \/ is_image_file(n)}

Put(dir, name, f) == (name :> f) @@ dir
Remove(dir, name) == [n \in DOMAIN dir \ {name} |-> dir[n]]

\* Thread p has rewritten or removed `name` in the store (how): every other
\* call in flight whose target is that name records it.
Touched(l, p, name, how) ==
    [q \in Procs |->
        IF q # p /\ ~Idle(q) /\ name # <<>> /\ l[q].target = name
        THEN [l[q] EXCEPT !.lost = how] ELSE l[q]]

\* open(path, 'wb') by thread p on a store name: the file is created empty, or
\* truncated if it is there.
Opened(l, p, name) ==
    Touched([l EXCEPT ![p].made = IF name \in DOMAIN store THEN l[p].made
                                  ELSE l[p].made \cup {name}],
            p, name, "rewritten")

\* What a file holds after a writer that opened it with 'wb' has written data
\* from offset 0 and closed.  When another writer has put bytes there since the
\* open truncated the file, the longer of the two leaves its tail behind.
Landed(dir, name, data) ==
    IF name \in DOMAIN dir /\ dir[name].data # partial
    THEN {data, garbled} ELSE {data}

\* ------------------------------------------------------------ scheduling
\* A request goes to the first thread that has served none.
CanStart(p) ==
    /\ mode = "conc"
    /\ pc[p] = "idle"
    /\ \E i \in 1..Len(ProcOrder) :
          /\ ProcOrder[i] = p
          /\ \A j \in 1..(i - 1) : pc[ProcOrder[j]] # "idle"

\* The clock moves on.
Tick ==
    /\ mode # "page"
    /\ now < MaxClock
    /\ now' = now + 1
    /\ UNCHANGED <<mode, store, parent, tmp, pc, loc, trip, pgIn, pgOut>>

\* tempfile.mkstemp: a path no file of the temp directory has.
TempPaths == <<"tmp1", "tmp2", "tmp3", "tmp4", "tmp5", "tmp6">>
\* A temp path built from a fixed name, whatever the temp directory holds.
fixed_temp_path == TempPaths[1]

mkstemp_path ==
    TempPaths[CHOOSE i \in 1..Len(TempPaths) :
                 /\ TempPaths[i] \notin DOMAIN tmp
                 /\ \A j \in 1..(i - 1) : TempPaths[j] \in DOMAIN tmp]

\* ------------------------------------------------------------ upload_video
\* An except clause that returns the error and leaves the temp file.
ExceptClauseKeepsTemp(p, l, t) ==
    /\ tmp' = t
    /\ loc' = [loc EXCEPT ![p] = Return(l, Err(500), t, store)]
    /\ pc' = [pc EXCEPT ![p] = "done"]

\* Lines 203-207, the except clause, entered with locals l and temp directory
\* t: remove the temp file if there is one and return the error.  An os.remove
\* that raises here leaves the handler.  The temp file is the call's own, so
\* the clause runs in the step of the call that raised.
ExceptClause(p, l, t) ==
    \E removed \in (IF l.tmpPath # "None" /\ l.tmpPath \in DOMAIN t
                    THEN BOOLEAN ELSE {TRUE}) :
        LET t2 == IF removed THEN Remove(t, l.tmpPath) ELSE t
        IN /\ tmp' = t2
           /\ loc' = [loc EXCEPT ![p] =
                        Return(l, IF removed THEN Err(500) ELSE Unhandled,
                               t2, store)]
           /\ pc' = [pc EXCEPT ![p] = "done"]

\* Lines 152-176: read the payload, split, decode, take the timestamp, create
\* the temp file (mkstemp), write the decoded bytes to it, name the mp4.
\* A split or decode error and a failing mkstemp reach the except clause with
\* temp_webm_path = None; a failing write reaches it with the temp file there.
UV_Begin(p, payload) ==
    LET video_binary == decode_payload(payload)
        l0 == [Fresh("video") EXCEPT !.arg = payload]
        l == [l0 EXCEPT !.bin = video_binary, !.ts = strftime(now)]
    IN /\ \E step \in (IF video_binary = "error" THEN {"decode"}
                       ELSE {"mkstemp", "write", "ok"}) :
             IF step = "decode"
             THEN ExceptClause(p, l0, tmp)
             ELSE IF step = "mkstemp"
             THEN ExceptClause(p, [l EXCEPT !.ioerr = TRUE], tmp)
             ELSE IF step = "write"
             THEN ExceptClause(p, [l EXCEPT !.ioerr = TRUE,
                                            !.tmpPath = mkstemp_path],
                               Put(tmp, mkstemp_path, partial))
             ELSE /\ tmp' = Put(tmp, mkstemp_path, raw(video_binary))
                  /\ loc' = [loc EXCEPT ![p] =
                               [l EXCEPT !.tmpPath = mkstemp_path,
                                         !.target = mp4_filename(l.ts)]]
                  /\ pc' = [pc EXCEPT ![p] = "ff_launch"]
       /\ UNCHANGED <<mode, now, store, parent, pgIn, pgOut>>

UV_Stage(p, payload) ==
    /\ CanStart(p)
    /\ UV_Begin(p, payload)
    /\ UNCHANGED trip

\* convert_webm_to_mp4 returned False (lines 50-52, 55-57): lines 186-188
\* name the fallback file.
ToFallback(l) ==
    [l EXCEPT !.xfail = TRUE, !.target = webm_filename(l.ts), !.lost = "no"]

\* How subprocess.run(cmd, capture_output=True, text=True) of line 48 ends:
\* launched says whether the ffmpeg process started, returncode is its exit
\* status (-1 without a process), raised says that subprocess.run raised: the
\* launch failed (ffmpeg missing, not executable), or the captured output of
\* the ended process could not be decoded as text.
RunResult(launched, returncode, raised) ==
    [launched |-> launched, returncode |-> returncode, raised |-> raised]

\* ffmpeg does not get as far as opening its output.
EarlyEnds == {RunResult(FALSE, -1, TRUE),
              RunResult(TRUE, 1, FALSE), RunResult(TRUE, 1, TRUE)}
\* ffmpeg ends after it has opened its output.
LateEnds == {RunResult(TRUE, rc, raised) : rc \in {0, 1}, raised \in BOOLEAN}

\* Lines 32-57, from the result of subprocess.run on: False from the except
\* clause, False for a nonzero exit status, True otherwise.
convert_webm_to_mp4(result) ==
    IF result.raised THEN FALSE
    ELSE IF result.returncode # 0 THEN FALSE
    ELSE TRUE

\* Line 179: upload_video branches on what convert_webm_to_mp4 returned; l is
\* the locals of all threads.
Converted(p, l, result) ==
    LET l1 == [l EXCEPT ![p].proc = [launched |-> result.launched,
                                     returncode |-> result.returncode]]
    IN IF convert_webm_to_mp4(result)
       THEN /\ loc' = l1
            /\ pc' = [pc EXCEPT ![p] = "rm_ok"]
       ELSE /\ loc' = [l1 EXCEPT ![p] = ToFallback(l1[p])]
            /\ pc' = [pc EXCEPT ![p] = "fb_open"]

\* Line 48, first half: subprocess.run launches ffmpeg.  Either the launch or
\* the input fails before ffmpeg opens its output, or ffmpeg creates the output
\* file, truncating one that is there (-y).
Ffmpeg_Launch(p) ==
    /\ pc[p] = "ff_launch"
    /\ \E opened \in BOOLEAN :
       \E result \in EarlyEnds :
          IF opened
          THEN /\ store' = Put(store, loc[p].target, File(partial, now))
               /\ loc' = Opened(loc, p, loc[p].target)
               /\ pc' = [pc EXCEPT ![p] = "ff_run"]
          ELSE /\ store' = store
               /\ Converted(p, loc, result)
    /\ UNCHANGED <<mode, now, parent, tmp, trip, pgIn, pgOut>>

\* Line 48, second half, to line 57: ffmpeg ends.  With exit status 0 the output
\* is complete; with another status the unfinished output stays where it is.
Ffmpeg_Run(p) ==
    /\ pc[p] = "ff_run"
    /\ \E result \in LateEnds :
       \E out \in Landed(store, loc[p].target, mp4(loc[p].bin)) :
          LET wrote == result.returncode = 0 /\ loc[p].target \in DOMAIN store
          IN /\ store' = IF wrote
                         THEN Put(store, loc[p].target, File(out, now))
                         ELSE store
             /\ Converted(p, Touched(loc, p, IF wrote THEN loc[p].target
                                              ELSE <<>>, "rewritten"),
                          result)
    /\ UNCHANGED <<mode, now, parent, tmp, trip, pgIn, pgOut>>

\* os.path.exists(temp_webm_path) and os.remove(temp_webm_path), then the
\* return; a failing os.remove raises into the except clause.
CleanupAndReturn(p, result) ==
    \E removed \in (IF loc[p].tmpPath \in DOMAIN tmp THEN BOOLEAN ELSE {TRUE}) :
        IF removed
        THEN /\ tmp' = Remove(tmp, loc[p].tmpPath)
             /\ loc' = [loc EXCEPT ![p] =
                          Return(loc[p], result,
                                 Remove(tmp, loc[p].tmpPath), store)]
             /\ pc' = [pc EXCEPT ![p] = "done"]
        ELSE ExceptClause(p, [loc[p] EXCEPT !.ioerr = TRUE], tmp)

\* A success path that returns a name ffmpeg did not write.
UV_SuccessCleanupOtherName(p) ==
    /\ pc[p] = "rm_ok"
    /\ CleanupAndReturn(p, Ok(webm_filename(loc[p].ts), FALSE))
    /\ UNCHANGED <<mode, now, store, parent, trip, pgIn, pgOut>>

\* Lines 180-184: clean up the temp file, return the mp4 name.
UV_SuccessCleanup(p) ==
    /\ pc[p] = "rm_ok"
    /\ CleanupAndReturn(p, Ok(loc[p].target, FALSE))
    /\ UNCHANGED <<mode, now, store, parent, trip, pgIn, pgOut>>

\* Line 190, open(webm_filepath, 'wb'): create or truncate the fallback file.
UV_FallbackOpen(p) ==
    /\ pc[p] = "fb_open"
    /\ \E ok \in BOOLEAN :
          IF ok
          THEN /\ store' = Put(store, loc[p].target, File(partial, now))
               /\ tmp' = tmp
               /\ loc' = Opened(loc, p, loc[p].target)
               /\ pc' = [pc EXCEPT ![p] = "fb_write"]
          ELSE /\ store' = store
               /\ ExceptClause(p, [loc[p] EXCEPT !.ioerr = TRUE,
                                                 !.swfail = TRUE], tmp)
    /\ UNCHANGED <<mode, now, parent, trip, pgIn, pgOut>>

\* Line 191, f.write(video_binary) and the close: the bytes land in the file
\* under the name, or the write fails and the file stays as it is.
UV_FallbackWrite(p) ==
    /\ pc[p] = "fb_write"
    /\ \E ok \in BOOLEAN :
       \E out \in Landed(store, loc[p].target, raw(loc[p].bin)) :
          IF ok
          THEN /\ store' = IF loc[p].target \in DOMAIN store
                           THEN Put(store, loc[p].target, File(out, now))
                           ELSE store
               /\ tmp' = tmp
               /\ loc' = Touched(loc, p,
                                 IF loc[p].target \in DOMAIN store
                                 THEN loc[p].target ELSE <<>>, "rewritten")
               /\ pc' = [pc EXCEPT ![p] = "fb_rm"]
          ELSE /\ store' = store
               /\ ExceptClause(p, [loc[p] EXCEPT !.ioerr = TRUE,
                                                 !.swfail = TRUE], tmp)
    /\ UNCHANGED <<mode, now, parent, trip, pgIn, pgOut>>

\* Lines 193-201: clean up the temp file, return the webm name and the warning.
UV_FallbackCleanup(p) ==
    /\ pc[p] = "fb_rm"
    /\ CleanupAndReturn(p, Ok(loc[p].target, TRUE))
    /\ UNCHANGED <<mode, now, store, parent, trip, pgIn, pgOut>>

\* ------------------------------------------------------------ upload_photo
\* Lines 212-232: split, process_image, the raw fallback (b64decode raises on
\* a bad body), the timestamp and the file name; then open(photo_filepath,
\* 'wb') creates or truncates the photo file.  Every exception returns the
\* error (lines 237-238).
UP_Begin(p, payload) ==
    LET parts == split_comma(payload, <<>>)
        photo_data == IF Len(parts) < 2 THEN <<>> ELSE parts[2]
        processed_image == process_image(photo_data)
        raw_image == b64decode(photo_data)
        l == [Fresh("photo") EXCEPT
                !.bin = raw_image,
                !.data = IF processed_image = NoData THEN raw(raw_image)
                         ELSE processed_image,
                !.ts = strftime(now),
                !.target = photo_filename(strftime(now))]
    IN /\ \E step \in (IF Len(parts) < 2 \/ raw_image = "error"
                       THEN {"decode"} ELSE {"open", "ok"}) :
             IF step = "decode"
             THEN /\ store' = store
                  /\ loc' = [loc EXCEPT ![p] =
                               Return(Fresh("photo"), Err(500), tmp, store)]
                  /\ pc' = [pc EXCEPT ![p] = "done"]
             ELSE IF step = "open"
             THEN /\ store' = store
                  /\ loc' = [loc EXCEPT ![p] =
                               Return([l EXCEPT !.ioerr = TRUE, !.swfail = TRUE],
                                      Err(500), tmp, store)]
                  /\ pc' = [pc EXCEPT ![p] = "done"]
             ELSE /\ store' = Put(store, l.target, File(partial, now))
                  /\ loc' = Opened([loc EXCEPT ![p] = l], p, l.target)
                  /\ pc' = [pc EXCEPT ![p] = "ph_write"]
       /\ UNCHANGED <<mode, now, parent, tmp, pgIn, pgOut>>

UP_Stage(p, payload) ==
    /\ CanStart(p)
    /\ UP_Begin(p, payload)
    /\ UNCHANGED trip

\* Lines 233-238: write the image and return, or the write fails and the
\* except clause returns the error.
UP_Write(p) ==
    /\ pc[p] = "ph_write"
    /\ \E ok \in BOOLEAN :
       \E out \in Landed(store, loc[p].target, loc[p].data) :
          IF ok
          THEN LET st == IF loc[p].target \in DOMAIN store
                         THEN Put(store, loc[p].target, File(out, now))
                         ELSE store
               IN /\ store' = st
                  /\ loc' = Touched([loc EXCEPT ![p] =
                                        Return(loc[p], Ok(loc[p].target, FALSE),
                                               tmp, st)],
                                    p,
                                    IF loc[p].target \in DOMAIN store
                                    THEN loc[p].target ELSE <<>>, "rewritten")
          ELSE /\ store' = store
               /\ loc' = [loc EXCEPT ![p] =
                            Return([loc[p] EXCEPT !.ioerr = TRUE,
                                                  !.swfail = TRUE],
                                   Err(500), tmp, store)]
    /\ pc' = [pc EXCEPT ![p] = "done"]
    /\ UNCHANGED <<mode, now, parent, tmp, trip, pgIn, pgOut>>

\* ------------------------------------------------------------ delete_media
\* os.remove(path) by thread p, then the return: the file goes and the result
\* is success, or os.remove raises (the path is a directory, the file is no
\* longer there, or the filesystem refuses) and lines 262-263 return the error.
os_remove(p, path) ==
    \E removed \in (IF path.dir \in {"store", "parent"} /\ exists(path)
                    THEN BOOLEAN ELSE {FALSE}) :
        IF removed
        THEN LET st == IF path.dir = "store" THEN Remove(store, path.key)
                       ELSE store
             IN /\ store' = st
                /\ parent' = IF path.dir = "parent" THEN parent \ {path.key}
                             ELSE parent
                /\ loc' = Touched([loc EXCEPT ![p] =
                                      Return(loc[p], Ok(<<>>, FALSE), tmp, st)],
                                  p, IF path.dir = "store" THEN path.key
                                     ELSE <<>>, "removed")
        ELSE /\ store' = store
             /\ parent' = parent
             /\ loc' = [loc EXCEPT ![p] =
                          Return([loc[p] EXCEPT !.ioerr = TRUE],
                                 Err(500), tmp, store)]

\* Lines 243-251: unquote, join, os.path.exists(filepath).
DM_Begin(p, filename) ==
    /\ LET filepath == path_join(unquote(filename))
           l == [Fresh("delete") EXCEPT
                   !.arg = filename, !.path = filepath,
                   !.target = IF filepath.dir = "store" THEN filepath.key
                              ELSE <<>>]
       IN /\ loc' = [loc EXCEPT ![p] = l]
          /\ pc' = [pc EXCEPT ![p] = IF exists(filepath) THEN "dm_rm"
                                     ELSE "dm_secure"]
    /\ UNCHANGED <<mode, now, store, parent, tmp, pgIn, pgOut>>

DM_Exists(p, filename) ==
    /\ CanStart(p)
    /\ DM_Begin(p, filename)
    /\ UNCHANGED trip

\* Lines 252-253 and 262-263: os.remove(filepath), return.
DM_Remove(p) ==
    /\ pc[p] = "dm_rm"
    /\ os_remove(p, loc[p].path)
    /\ pc' = [pc EXCEPT ![p] = "done"]
    /\ UNCHANGED <<mode, now, tmp, trip, pgIn, pgOut>>

\* Lines 255-257 and 261: the secure_filename path; 404 when it is not there.
DM_SecureExists(p) ==
    /\ pc[p] = "dm_secure"
    /\ LET secure_filepath == path_join(secure_filename(unquote(loc[p].arg)))
       IN IF exists(secure_filepath)
          THEN /\ loc' = [loc EXCEPT ![p].path = secure_filepath,
                                      ![p].target = secure_filepath.key,
                                      ![p].lost = "no"]
               /\ pc' = [pc EXCEPT ![p] = "dm_srm"]
          ELSE /\ loc' = [loc EXCEPT ![p] =
                            Return(loc[p], Err(404), tmp, store)]
               /\ pc' = [pc EXCEPT ![p] = "done"]
    /\ UNCHANGED <<mode, now, store, parent, tmp, trip, pgIn, pgOut>>

\* Lines 258-259 and 262-263: os.remove(secure_filepath), return.
DM_SecureRemove(p) ==
    /\ pc[p] = "dm_srm"
    /\ os_remove(p, loc[p].path)
    /\ pc' = [pc EXCEPT ![p] = "done"]
    /\ UNCHANGED <<mode, now, tmp, trip, pgIn, pgOut>>

\* ------------------------------------------------------------ index
\* os.listdir: the names of a directory, in the order the scan yields them.
RECURSIVE listdir(_)
listdir(names) ==
    IF names = {} THEN <<>>
    ELSE LET n == CHOOSE x \in names : TRUE
         IN <<n>> \o listdir(names \ {n})

\* Line 100: the loop body runs only for media names.
RECURSIVE media_only(_)
media_only(names) ==
    IF names = <<>> THEN <<>>
    ELSE IF is_video_file(Head(names)) \/ is_image_file(Head(names))
         THEN <<Head(names)>> \o media_only(Tail(names))
         ELSE media_only(Tail(names))

\* Lines 101-106 for every name of the scan, then lines 108-142: stat each
\* file, sort, paginate, render.  os.path.getmtime raises when a file of the
\* scan is gone, and index() has no handler.
IX_Collect(l) ==
    IF \A i \in 1..Len(l.todo) : l.todo[i] \in DOMAIN store
    THEN LET media_files ==
                 [i \in 1..Len(l.todo) |->
                    [filename |-> l.todo[i],
                     type |-> IF is_image_file(l.todo[i]) THEN "image"
                              ELSE "video",
                     timestamp |-> store[l.todo[i]].mtime]]
         IN Return([l EXCEPT !.pageinfo =
                                paginate(media_files, l.page, MEDIA_PER_PAGE)],
                   Rendered, tmp, store)
    ELSE Return(l, Unhandled, tmp, store)

\* Lines 91-100: read the page number, scan the directory.  An empty scan goes
\* straight to the rendering.
IX_Begin(p, page) ==
    /\ LET l == [Fresh("list") EXCEPT
                    !.page = page,
                    !.todo = media_only(listdir(DOMAIN store))]
       IN IF l.todo = <<>>
          THEN /\ loc' = [loc EXCEPT ![p] = IX_Collect(l)]
               /\ pc' = [pc EXCEPT ![p] = "done"]
          ELSE /\ loc' = [loc EXCEPT ![p] = l]
               /\ pc' = [pc EXCEPT ![p] = "ix_stat"]
    /\ UNCHANGED <<mode, now, store, parent, tmp, pgIn, pgOut>>

IX_Listdir(p, page) ==
    /\ CanStart(p)
    /\ IX_Begin(p, page)
    /\ UNCHANGED trip

\* Lines 101-142: the modification times, the sort, the page.
IX_Getmtime(p) ==
    /\ pc[p] = "ix_stat"
    /\ loc' = [loc EXCEPT ![p] = IX_Collect(loc[p])]
    /\ pc' = [pc EXCEPT ![p] = "done"]
    /\ UNCHANGED <<mode, now, store, parent, tmp, trip, pgIn, pgOut>>

\* ------------------------------------------------------------ the round trip
\* One client, no other request: upload a video, list, delete the name the
\* upload returned.  trip.pre is the listing before the upload.
RT_Upload(payload) ==
    /\ mode = "rt"
    /\ trip.stage = 0
    /\ UV_Begin("p1", payload)
    /\ trip' = [stage |-> 1, pre |-> Enumerate(store), name |-> <<>>]

RT_List(page) ==
    /\ mode = "rt"
    /\ trip.stage = 1
    /\ pc["p1"] = "done"
    /\ loc["p1"].result.success
    /\ IX_Begin("p1", page)
    /\ trip' = [trip EXCEPT !.stage = 2, !.name = loc["p1"].result.filename]

RT_Delete ==
    /\ mode = "rt"
    /\ trip.stage = 2
    /\ pc["p1"] = "done"
    /\ loc["p1"].result.kind = "page"
    /\ DM_Begin("p1", trip.name)
    /\ trip' = [trip EXCEPT !.stage = 3]

\* ------------------------------------------------------------ the paginator alone
\* Item lists for the paginator: every list of up to MaxItems items with
\* modification times 1 or 2 (ties included), and long lists around the page
\* boundaries of MEDIA_PER_PAGE.
LongCounts == {29, 30, 31, 60, 65}
PageSizes == {1, 2, MEDIA_PER_PAGE}
PageInputs == (-1..4) \cup {100}

ItemList(times) ==
    [i \in 1..Len(times) |->
        [filename |-> i, type |-> "video", timestamp |-> times[i]]]

ItemLists ==
    { ItemList(t) : t \in UNION {[1..n -> 1..2] : n \in 0..MaxItems} }
    \cup { ItemList([i \in 1..n |-> i % 3]) : n \in LongCounts }

\* index() from line 108 on, applied to the chosen input.
PG_Apply ==
    /\ mode = "page"
    /\ ~pgOut.done
    /\ pgOut' = [done |-> TRUE,
                 out |-> paginate(pgIn.items, pgIn.page, pgIn.per)]
    /\ UNCHANGED <<mode, now, store, parent, tmp, pc, loc, trip, pgIn>>

\* ------------------------------------------------------------ specifications
\* The requests a client sends.  Concurrent video uploads carry the bytes b1 in
\* a valid body, the bytes b2 after a character outside the alphabet, or a
\* payload that does not decode.
VideoPayloads == Payloads \ { <<"data:", ",", "YjI=">> }
ListPages == {2}
DeleteNames ==
    DOMAIN store \cup
    { <<"..", "%2F", "logo", ".png">>,      \* a file of static/, percent-encoded
      <<"..", "/", "a", "_", "b", ".mp4">>, \* no such file in static/
      <<"a", " ", "b", ".mp4">>,            \* a name with a space
      <<"missing", ".mp4">> }

\* What the storage directory holds when the server starts: nothing, or a video
\* kept from earlier.
EmptyDir == [n \in {} |-> File(partial, 1)]
Legacy == (<<"a", "_", "b", ".mp4">> :> File(mp4("b1"), 1))

InitCommon ==
    /\ now = 1
    /\ parent = {<<"logo", ".png">>}
    /\ tmp = [n \in {} |-> partial]
    /\ pc = [p \in Procs |-> "idle"]
    /\ loc = [p \in Procs |-> Fresh("none")]
    /\ trip = [stage |-> 0, pre |-> {}, name |-> <<>>]
    /\ pgIn = [items |-> <<>>, page |-> 1, per |-> MEDIA_PER_PAGE]
    /\ pgOut = [done |-> FALSE, out |-> NoPage]

Init ==
    /\ mode = "conc"
    /\ store \in {EmptyDir, Legacy}
    /\ InitCommon

InitRT ==
    /\ mode = "rt"
    /\ store \in {EmptyDir, Legacy}
    /\ InitCommon

InitPage ==
    /\ mode = "page"
    /\ now = 1
    /\ store = EmptyDir
    /\ parent = {}
    /\ tmp = [n \in {} |-> partial]
    /\ pc = [p \in Procs |-> "idle"]
    /\ loc = [p \in Procs |-> Fresh("none")]
    /\ trip = [stage |-> 0, pre |-> {}, name |-> <<>>]
    /\ pgIn \in [items : ItemLists, page : PageInputs, per : PageSizes]
    /\ pgOut = [done |-> FALSE, out |-> NoPage]

Next ==
    \/ Tick
    \/ \E p \in Procs : \E payload \in VideoPayloads : UV_Stage(p, payload)
    \/ \E p \in Procs : Ffmpeg_Launch(p)
    \/ \E p \in Procs : Ffmpeg_Run(p)
    \/ \E p \in Procs : UV_SuccessCleanup(p)
    \/ \E p \in Procs : UV_FallbackOpen(p)
    \/ \E p \in Procs : UV_FallbackWrite(p)
    \/ \E p \in Procs : UV_FallbackCleanup(p)
    \/ \E p \in Procs : \E payload \in Payloads : UP_Stage(p, payload)
    \/ \E p \in Procs : UP_Write(p)
    \/ \E p \in Procs : \E filename \in DeleteNames : DM_Exists(p, filename)
    \/ \E p \in Procs : DM_Remove(p)
    \/ \E p \in Procs : DM_SecureExists(p)
    \/ \E p \in Procs : DM_SecureRemove(p)
    \/ \E p \in Procs : \E page \in ListPages : IX_Listdir(p, page)
    \/ \E p \in Procs : IX_Getmtime(p)

\* The round trip runs on thread p1; the name it deletes is there, so the
\* secure_filename path of delete_media is never taken.
NextRT ==
    \/ Tick
    \/ \E payload \in Payloads : RT_Upload(payload)
    \/ Ffmpeg_Launch("p1")
    \/ Ffmpeg_Run("p1")
    \/ UV_SuccessCleanup("p1")
    \/ UV_FallbackOpen("p1")
    \/ UV_FallbackWrite("p1")
    \/ UV_FallbackCleanup("p1")
    \/ \E page \in ListPages : RT_List(page)
    \/ IX_Getmtime("p1")
    \/ RT_Delete
    \/ DM_Remove("p1")

Spec == Init /\ [][Next]_vars
SpecRT == InitRT /\ [][NextRT]_vars
SpecPage == InitPage /\ [][PG_Apply]_vars

\* ------------------------------------------------------------ claims
Done(p, op) == pc[p] = "done" /\ loc[p].op = op
ValidPayload(p) == loc[p].bin \in Bodies
Last(name) == name[Len(name)]

\* C1: at every moment, every file of the store with a recognized media
\* extension is fully written.
C1_StoreAlwaysComplete ==
    \A n \in Enumerate(store) : fully_written(store[n])

C4_FallbackKeepsBytes ==
    \A p \in Procs :
        /\ Done(p, "video") /\ ValidPayload(p) /\ loc[p].xfail
        /\ ~loc[p].ioerr /\ loc[p].lost # "removed"
        => /\ loc[p].result.success
           /\ loc[p].result.warning
           /\ loc[p].result.filename # <<>>
           /\ Last(loc[p].result.filename) = ".webm"
           /\ loc[p].fileAt = raw(loc[p].bin)

\* C5: when the write of the final file into the store fails, the call returns
\* success=false and leaves no file it created in the store.
C5_NoPartialCommit ==
    \A p \in Procs :
        pc[p] = "done" /\ loc[p].swfail =>
            ~loc[p].result.success /\ loc[p].stray = {}

\* A name with a path separator or a parent-directory segment, once decoded.
HasTraversal(filename) ==
    \E i \in 1..Len(filename) : unquote(filename)[i] \in {"/", ".."}

\* C6: delete_media on a name with a path separator or a parent-directory
\* segment fails and removes no file.
C6_TraversalRejected ==
    \A p \in Procs :
        Done(p, "delete") /\ HasTraversal(loc[p].arg) =>
            ~loc[p].result.success

\* C7: no step changes the content of a fully written file of the store while
\* the file stays there.
C7_NoOverwrite ==
    [][\A n \in DOMAIN store :
          fully_written(store[n]) /\ n \in DOMAIN store' =>
              store'[n].data = store[n].data]_vars

\* C8: a call that has placed its final file (it stands at the cleanup) makes
\* no further change to the filesystem.
C8_CommitIsLast ==
    [][\A p \in Procs :
          pc[p] \in {"rm_ok", "fb_rm"} /\ pc'[p] # pc[p] =>
              tmp' = tmp /\ store' = store]_vars

\* C9: after upload, list and a successful delete of the returned name, the
\* listing of the store is the one before the upload.
C9_RoundTrip ==
    trip.stage = 3 /\ pc["p1"] = "done" /\ loc["p1"].result.success =>
        Enumerate(store) = trip.pre

\* The least k with k * per >= count.
CeilOf(count, per) ==
    CHOOSE k \in 0..count : k * per >= count /\ (k - 1) * per < count

IsDescending(items) ==
    \A i \in 1..(Len(items) - 1) : items[i].timestamp >= items[i + 1].timestamp

IsPermutation(a, b) ==
    /\ Len(a) = Len(b)
    /\ \A x \in {a[i] : i \in 1..Len(a)} :
          Cardinality({i \in 1..Len(a) : a[i] = x})
            = Cardinality({i \in 1..Len(b) : b[i] = x})

\* C10: the paginator yields totalPages = max(1, ceil(count / pageSize)), the
\* requested page clamped into [1, totalPages], and the items of the list
\* sorted newest first at positions [(page-1)*pageSize, min(page*pageSize, count)).
C10_PaginateContract ==
    pgOut.done =>
        LET count == Len(pgIn.items)
            sorted == sort_desc(pgIn.items)
            out == pgOut.out
            tp == Max(1, CeilOf(count, pgIn.per))
            cp == Min(Max(pgIn.page, 1), tp)
            lo == (cp - 1) * pgIn.per
            hi == Min(cp * pgIn.per, count)
        IN /\ IsDescending(sorted) /\ IsPermutation(sorted, pgIn.items)
           /\ out.total_pages = tp
           /\ out.current_page = cp
           /\ Len(out.media_files) = hi - lo
           /\ \A i \in 1..(hi - lo) : out.media_files[i] = sorted[lo + i]

\* C10 witness: 65 items, page size 30, page 3: items 61 to 65 of 3 pages.
C10_Witness ==
    /\ pgOut.done
    /\ Len(pgIn.items) = 65 /\ pgIn.per = 30 /\ pgIn.page = 3
    /\ pgOut.out.total_pages = 3
    /\ Len(pgOut.out.media_files) = 5

\* C11: the pagination info describes the slice.  With no item, start_idx =
\* end_idx = 0, the slice is empty and has_prev = has_next = FALSE; with items,
\* start_idx = (current_page - 1) * pageSize + 1, end_idx = start_idx + (slice
\* length) - 1 <= count, has_prev iff current_page > 1 and has_next iff
\* current_page < total_pages.
C11_PageMetadata ==
    pgOut.done =>
        LET count == Len(pgIn.items)
            out == pgOut.out
        IN IF count = 0
           THEN /\ out.start_idx = 0 /\ out.end_idx = 0
                /\ out.media_files = <<>>
                /\ ~out.has_prev /\ ~out.has_next
           ELSE /\ out.start_idx = (out.current_page - 1) * pgIn.per + 1
                /\ out.end_idx = out.start_idx + Len(out.media_files) - 1
                /\ out.end_idx <= count
                /\ out.has_prev <=> out.current_page > 1
                /\ out.has_next <=> out.current_page < out.total_pages

\* C11 witness: 31 items, page size 30, page 2: the one item 31 of the last page.
C11_Witness ==
    /\ pgOut.done
    /\ Len(pgIn.items) = 31 /\ pgIn.per = 30 /\ pgIn.page = 2
    /\ pgOut.out.start_idx = 31 /\ pgOut.out.end_idx = 31
    /\ pgOut.out.has_prev /\ ~pgOut.out.has_next

\* A payload without the separator, or whose body has a character outside the
\* base64 alphabet or an incorrect padding.
Malformed(payload) ==
    LET parts == split_comma(payload, <<>>)
    IN \/ Len(parts) < 2
       \/ \E i \in 1..Len(parts[2]) : parts[2][i] \in NonAlphabet
       \/ b64decode(parts[2]) = "error"

\* C12: upload_video on a malformed payload, no filesystem call failing,
\* returns success=false in a structured result, has created no temp file and
\* leaves no file of its own in the store.
C12_MalformedRejected ==
    \A p \in Procs :
        Done(p, "video") /\ Malformed(loc[p].arg) /\ ~loc[p].ioerr =>
            /\ loc[p].result.kind = "json"
            /\ ~loc[p].result.success
            /\ ~loc[p].tmpMade
            /\ loc[p].stray = {}

\* C13: upload_photo on a body that decodes but that process_image cannot turn
\* into a JPEG, no filesystem call failing and no request removing the file,
\* returns success=true with a .jpg name, and at the return the file of that
\* name holds exactly the raw decoded bytes.
C13_RawPhotoKept ==
    \A p \in Procs :
        /\ Done(p, "photo") /\ loc[p].bin \in Bodies \ ImageBodies
        /\ ~loc[p].ioerr /\ loc[p].lost # "removed"
        => /\ loc[p].result.success
           /\ loc[p].result.filename # <<>>
           /\ Last(loc[p].result.filename) = ".jpg"
           /\ loc[p].fileAt = raw(loc[p].bin)

\* C14: every request that has ended has a structured result (a success flag,
\* or a page), whatever failed during it: no exception leaves a handler.
C14_AlwaysStructured ==
    \A p \in Procs :
        pc[p] = "done" => loc[p].result.kind \in {"json", "page"}

\* C15: when upload_video returns success, the store holds no file that the
\* call created other than the one named in the result; after the fallback
\* branch, no mp4 of the call's ffmpeg run is there.
C15_OneFilePerUpload ==
    \A p \in Procs :
        Done(p, "video") /\ loc[p].result.success => loc[p].stray = {}

\* C16: a delete_media call on a name without separator or parent segment
\* changes the filesystem only by removing the store file of exactly that
\* name: its removing step takes that file away, or changes nothing.
C16_DeleteFrame ==
    [][\A p \in Procs :
          /\ pc[p] \in {"dm_rm", "dm_srm"} /\ pc'[p] = "done"
          /\ ~HasTraversal(loc[p].arg)
          => /\ parent' = parent
             /\ \/ store' = store
                \/ /\ loc[p].arg \in DOMAIN store
                   /\ store' = Remove(store, loc[p].arg)]_vars

\* C17: of two delete_media calls on the same name, when one returns success
\* and no removal fails for another reason than the file being gone, the other
\* returns the not-found result (404, success=false), not the generic error.
C17_SecondDeleteNotFound ==
    \A p, q \in Procs :
        /\ p # q /\ Done(p, "delete") /\ Done(q, "delete")
        /\ loc[p].arg = loc[q].arg
        /\ loc[p].result.success
        /\ loc[q].ioerr => loc[q].lost = "removed"
        => /\ ~loc[q].result.success
           /\ loc[q].result.http = 404

\* C18: a listing that has ended, whatever ran beside it, has rendered a page
\* (no exception left index()), and every item of the page is a media name
\* that the directory scan saw.
C18_ListingCompletes ==
    \A p \in Procs :
        Done(p, "list") =>
            /\ loc[p].result.kind = "page"
            /\ \A i \in 1..Len(loc[p].pageinfo.media_files) :
                  LET n == loc[p].pageinfo.media_files[i].filename
                  IN is_video_file(n) \/ is_image_file(n)

\* A call of upload_video between the writing of its temp file and its cleanup.
HoldsTemp(p) ==
    pc[p] \in {"ff_launch", "ff_run", "rm_ok", "fb_open", "fb_write", "fb_rm"}

\* C19: every upload_video call in flight has its temp file, holding the bytes
\* the call wrote (no other call has rewritten or removed it), and two calls in
\* flight have different temp files.
C19_OwnTempFile ==
    \A p \in Procs :
        HoldsTemp(p) =>
            /\ loc[p].tmpPath \in DOMAIN tmp
            /\ tmp[loc[p].tmpPath] = raw(loc[p].bin)
            /\ \A q \in Procs \ {p} :
                  HoldsTemp(q) => loc[q].tmpPath # loc[p].tmpPath

\* C19 witness: a call created its temp file while another call's was there,
\* the other call has cleaned up and returned, and the file is still there.
C19_Witness ==
    \E p, q \in Procs :
        /\ Done(p, "video") /\ loc[p].tmpMade /\ ~loc[p].tmpLeft
        /\ HoldsTemp(q)
        /\ loc[q].tmpPath = TempPaths[2]
        /\ loc[q].tmpPath \in DOMAIN tmp
        /\ loc[p].bin # loc[q].bin

\* C20: once convert_webm_to_mp4 has returned in a running call, it returned True
\* exactly when the ffmpeg process was launched and exited with status 0, and
\* False otherwise.
C20_TranscoderVerdict ==
    \A p \in Procs :
        loc[p].proc # NotRun =>
            (~loc[p].xfail <=> loc[p].proc.launched /\ loc[p].proc.returncode = 0)

====
